---- MODULE Spec2Model ----
(***************************************************************************)
(* The Psychic Poker Player (src/python/poker.py): cards, hand evaluation, *)
(* the discard generator, the search over the 32 discard patterns and the  *)
(* line-by-line input loop.                                                *)
(***************************************************************************)
EXTENDS Integers, Sequences, FiniteSets, TLC

VARIABLES
    ecards,     \* the five cards of the Hand handed to Hand.evaluate
    eresult,    \* what Hand.evaluate returned, or None
    sfigures,   \* the figures handed to Hand.is_straight
    sresult     \* what Hand.is_straight returned, or None

VARIABLES
    gen         \* the local variables of a running discard(n)

VARIABLES
    sbase,      \* the record a search input is drawn from, as ten tokens
    srec,       \* the record searched: sbase with its first five tokens reordered
    sline,      \* the input line holding srec
    sret        \* what process returned for sline, or NotYet

VARIABLES
    hcards,     \* best_combinations' argument: the ten cards of a record
    hlists,     \* the list objects: 0 is five, 1 and 2 the lists of the Hand objects
    hobj,       \* the Hand objects 1 and 2: the list self.cards refers to, self.rank
    hbest,      \* the Hand object the variable best refers to (0: none yet)
    hhand,      \* the Hand object the variable hand refers to (0: none yet)
    hvar        \* the positions of hand replaced since it was built, in order

VARIABLES
    fd,         \* the lines not read yet
    iread,      \* the lines read so far
    iout,       \* the lines printed so far
    idone       \* read_input has left its loop

evars == <<ecards, eresult, sfigures, sresult>>

svars == <<sbase, srec, sline, sret>>

hvars == <<hcards, hlists, hobj, hbest, hhand, hvar>>

ivars == <<fd, iread, iout, idone>>

vars == <<evars, gen, svars, hvars, ivars>>

None == "None"

\* A Python bool as it prints.
PyBool(b) == IF b THEN "True" ELSE "False"

\* Python's 0-based indexing into a list.
At(seq, i) == seq[i + 1]

---------------------------------------------------------------------------
(* class Card *)

FIG == <<"A", "2", "3", "4", "5", "6", "7", "8", "9", "T", "J", "Q", "K">>

SUIT == <<"C", "D", "H", "S">>

FigChars == {FIG[i] : i \in DOMAIN FIG}

SuitChars == {SUIT[i] : i \in DOMAIN SUIT}

\* The dictionary _CARD: a figure to its ordinal (from 1) shifted left by 4
\* bits, a suit to its ordinal (from 1).  Both kinds of key live in one table.
CARD ==
    [ch \in FigChars \cup SuitChars |->
        IF ch \in FigChars
        THEN 16 * (CHOOSE i \in DOMAIN FIG : FIG[i] = ch)
        ELSE CHOOSE i \in DOMAIN SUIT : SUIT[i] = ch]

\* Card.__init__ raises: KeyError when either of the first two characters is
\* no key of _CARD, IndexError when the token has one character only.
CardRaises(token) ==
    \/ Len(token) < 2
    \/ token[1] \notin DOMAIN CARD
    \/ token[2] \notin DOMAIN CARD

\* The Card object Card.__init__ leaves: the number it computes from the first
\* two characters, and the object's identity (Card defines neither __eq__
\* nor __hash__, so two Card objects are equal only when they are the same
\* object).
Card(id, token) == [id |-> id, card |-> CARD[token[1]] + CARD[token[2]]]

\* The number of the card with figure ordinal f (1..13) and suit ordinal s (1..4).
MkCard(f, s) == f * 16 + s

suit_only(c) == (c.card % 16) - 1

figure_only(c) == (c.card \div 16) - 1

Card_str(c) == At(FIG, figure_only(c)) \o At(SUIT, suit_only(c))

---------------------------------------------------------------------------
(* class Hand *)

RANK == <<"highest-card", "one-pair", "two-pairs", "three-of-a-kind", "straight",
          "flush", "full-house", "four-of-a-kind", "straight-flush">>

\* sorted(..., reverse=True)
RECURSIVE InsertDesc(_, _)
InsertDesc(x, seq) ==
    IF seq = <<>> THEN <<x>>
    ELSE IF x >= Head(seq) THEN <<x>> \o seq
    ELSE <<Head(seq)>> \o InsertDesc(x, Tail(seq))

RECURSIVE SortedDesc(_)
SortedDesc(seq) ==
    IF seq = <<>> THEN <<>> ELSE InsertDesc(Head(seq), SortedDesc(Tail(seq)))

\* is_straight without its second case.
is_straight_consecutive_only(figures) ==
    SelectSeq(<<1, 2, 3, 4>>, LAMBDA i : At(figures, i - 1) # At(figures, i) + 1) = <<>>

is_straight(figures) ==
    LET stops == SelectSeq(<<1, 2, 3, 4>>,
                           LAMBDA i : At(figures, i - 1) # At(figures, i) + 1)
    IN  \/ stops = <<>>
        \/ (stops = <<4>> /\ At(figures, 0) = 12 /\ At(figures, 4) = 0)

\* The figures as they come, not sorted.
HandFigures_unsorted(cards) == [k \in DOMAIN cards |-> figure_only(cards[k])]

HandFigures(cards) == SortedDesc([k \in DOMAIN cards |-> figure_only(cards[k])])

\* evaluate without its second full-house test (the pair above the three).
evaluate_one_full_house(cards) ==
    LET suits == Cardinality({suit_only(cards[k]) : k \in DOMAIN cards})
        figures == HandFigures(cards)
        distinct == Cardinality({figures[k] : k \in DOMAIN figures})
    IN  IF suits = 1
        THEN (IF is_straight(figures) THEN "straight-flush" ELSE "flush")
        ELSE IF At(figures, 0) = At(figures, 3) \/ At(figures, 1) = At(figures, 4)
        THEN "four-of-a-kind"
        ELSE IF At(figures, 0) = At(figures, 2) /\ At(figures, 3) = At(figures, 4)
        THEN "full-house"
        ELSE IF is_straight(figures)
        THEN "straight"
        ELSE IF \/ At(figures, 0) = At(figures, 2)
                \/ At(figures, 1) = At(figures, 3)
                \/ At(figures, 2) = At(figures, 4)
        THEN "three-of-a-kind"
        ELSE IF distinct = 3 THEN "two-pairs"
        ELSE IF distinct = 4 THEN "one-pair"
        ELSE "highest-card"

evaluate(cards) ==
    LET suits == Cardinality({suit_only(cards[k]) : k \in DOMAIN cards})
        figures == HandFigures(cards)
        distinct == Cardinality({figures[k] : k \in DOMAIN figures})
    IN  IF suits = 1
        THEN (IF is_straight(figures) THEN "straight-flush" ELSE "flush")
        ELSE IF At(figures, 0) = At(figures, 3) \/ At(figures, 1) = At(figures, 4)
        THEN "four-of-a-kind"
        ELSE IF At(figures, 0) = At(figures, 2) /\ At(figures, 3) = At(figures, 4)
        THEN "full-house"
        ELSE IF At(figures, 0) = At(figures, 1) /\ At(figures, 2) = At(figures, 4)
        THEN "full-house"
        ELSE IF is_straight(figures)
        THEN "straight"
        ELSE IF \/ At(figures, 0) = At(figures, 2)
                \/ At(figures, 1) = At(figures, 3)
                \/ At(figures, 2) = At(figures, 4)
        THEN "three-of-a-kind"
        ELSE IF distinct = 3 THEN "two-pairs"
        ELSE IF distinct = 4 THEN "one-pair"
        ELSE "highest-card"

\* A Hand object by value: its list of cards and its cached rank.
Hand(cards) == [tag |-> "Hand", cards |-> cards, rank |-> None]

\* replace that leaves the cached rank in place.
Hand_replace_keeps_rank(h, index, c) ==
    [h EXCEPT !.cards = [h.cards EXCEPT ![index + 1] = c]]

Hand_replace(h, index, c) ==
    [h EXCEPT !.cards = [h.cards EXCEPT ![index + 1] = c], !.rank = None]

\* What __str__ and __int__ leave of the object: the rank, evaluated if unset.
Hand_cached(h) == IF h.rank = None THEN [h EXCEPT !.rank = evaluate(h.cards)] ELSE h

Hand_str(h) == Hand_cached(h).rank

\* _RANK.index(self.rank)
Hand_int(h) ==
    LET rank == Hand_str(h)
    IN  (CHOOSE i \in DOMAIN RANK : RANK[i] = rank) - 1

Hand_ne(h, other) == Hand_str(h) # Hand_str(other)

Hand_gt(h, other) == Hand_int(h) > Hand_int(other)

---------------------------------------------------------------------------
(* discard(n): the generator, one record of its local variables, one step  *)
(* for each pass of its while loop.  out is what it has yielded so far,    *)
(* steps counts the passes.                                                *)

GenStart(n) ==
    IF n > 0
    THEN [n |-> n, s |-> <<>>, w |-> 0, pc |-> "loop", out |-> <<>>, steps |-> 0]
    ELSE [n |-> n, s |-> <<>>, w |-> 0, pc |-> "done", out |-> <<>>, steps |-> 0]

\* The append step yielding whenever s is at least n long.
GenAppend_yields_longer(g) ==
    LET s == Append(g.s, g.w)
    IN  [g EXCEPT !.s = s,
                  !.w = g.w + 1,
                  !.out = IF Len(s) >= g.n THEN Append(g.out, s) ELSE g.out,
                  !.steps = g.steps + 1]

\* The for loop has an element: append it, yield if s is n long, break.
GenAppend(g) ==
    LET s == Append(g.s, g.w)
    IN  [g EXCEPT !.s = s,
                  !.w = g.w + 1,
                  !.out = IF Len(s) = g.n THEN Append(g.out, s) ELSE g.out,
                  !.steps = g.steps + 1]

\* The for loop is empty and s is not: step back.
GenBack(g) ==
    [g EXCEPT !.w = g.s[Len(g.s)] + 1,
              !.s = SubSeq(g.s, 1, Len(g.s) - 1),
              !.steps = g.steps + 1]

\* The for loop is empty and so is s: break out of the while loop.
GenStop(g) == [g EXCEPT !.pc = "done", !.steps = g.steps + 1]

GenStep(g) ==
    IF g.w < 5 THEN GenAppend(g)
    ELSE IF Len(g.s) > 0 THEN GenBack(g)
    ELSE GenStop(g)

RECURSIVE GenRun(_)
GenRun(g) == IF g.pc = "done" THEN g.out ELSE GenRun(GenStep(g))

\* Everything discard(n) yields, in order.
discard(n) == GenRun(GenStart(n))

---------------------------------------------------------------------------
(* best_combinations, validate, convert, process *)

\* The inner loop taking the deck card at the position replaced, not the
\* next one of the deck.
RECURSIVE Replaced_by_position(_, _, _, _)
Replaced_by_position(hand, cards, variation, n) ==
    IF n >= Len(variation) THEN hand
    ELSE Replaced_by_position(
             Hand_replace(hand, At(variation, n), At(cards, 5 + At(variation, n))),
             cards, variation, n + 1)

\* The inner loop: a fresh Hand of the five, the r-th position replaced by
\* the n-th card after the five, for the n-th r of the variation.
RECURSIVE Replaced(_, _, _, _)
Replaced(hand, cards, variation, n) ==
    IF n >= Len(variation) THEN hand
    ELSE Replaced(Hand_replace(hand, At(variation, n), At(cards, 5 + n)),
                  cards, variation, n + 1)

Candidate(five, cards, variation) == Replaced(Hand(five), cards, variation, 0)

\* if hand > best: best = hand (the comparison caches both ranks)
Better(hand, best) ==
    LET h == Hand_cached(hand)
        b == Hand_cached(best)
    IN  IF Hand_gt(h, b) THEN h ELSE b

RECURSIVE TryAll(_, _, _, _)
TryAll(five, cards, variations, best) ==
    \* (best is always a Hand: the test has TLC evaluate it before the next pass)
    IF variations = <<>> \/ best.tag # "Hand" THEN best
    ELSE TryAll(five, cards, Tail(variations),
                Better(Candidate(five, cards, Head(variations)), best))

\* for d in xrange(1, 6): for variation in discard(d)
Variations == discard(1) \o discard(2) \o discard(3) \o discard(4) \o discard(5)

best_combinations(cards) ==
    LET five == SubSeq(cards, 1, 5)
    IN  TryAll(five, cards, Variations, Hand(five))

False == [tag |-> "False"]

List(items) == [tag |-> "list", items |-> items]

\* Python's truth value of what validate and process return.
Truthy(v) ==
    CASE v.tag = "False" -> FALSE
      [] v.tag = "list" -> v.items # <<>>
      [] v.tag = "Hand" -> TRUE

\* len(set(cards)) == 10 and cards
validate(cards) ==
    IF Cardinality({cards[k] : k \in DOMAIN cards}) = 10 THEN List(cards) ELSE False

Upper(ch) ==
    CASE ch = "a" -> "A" [] ch = "t" -> "T" [] ch = "j" -> "J" [] ch = "q" -> "Q"
      [] ch = "k" -> "K" [] ch = "c" -> "C" [] ch = "d" -> "D" [] ch = "h" -> "H"
      [] ch = "s" -> "S" [] ch = "x" -> "X" [] OTHER -> ch

\* str.split(): the runs of characters other than blanks.
RECURSIVE SplitFrom(_, _, _, _)
SplitFrom(line, i, cur, acc) ==
    IF i > Len(line) THEN (IF cur = <<>> THEN acc ELSE Append(acc, cur))
    ELSE IF line[i] = " "
    THEN SplitFrom(line, i + 1, <<>>, IF cur = <<>> THEN acc ELSE Append(acc, cur))
    ELSE SplitFrom(line, i + 1, Append(cur, line[i]), acc)

Split(line) == SplitFrom(line, 1, <<>>, <<>>)

\* str.strip()
RECURSIVE Strip(_)
Strip(line) ==
    IF line = <<>> THEN line
    ELSE IF Head(line) = " " THEN Strip(Tail(line))
    ELSE IF line[Len(line)] = " " THEN Strip(SubSeq(line, 1, Len(line) - 1))
    ELSE line

\* map(Card, line.upper().split()), or [] when a Card cannot be built
convert(line) ==
    LET tokens == Split([k \in DOMAIN line |-> Upper(line[k])])
    IN  IF \E k \in DOMAIN tokens : CardRaises(tokens[k])
        THEN <<>>
        ELSE [k \in DOMAIN tokens |-> Card(k, tokens[k])]

\* cards and best_combinations(cards)
process(line) ==
    LET cards == validate(convert(line))
    IN  IF Truthy(cards) THEN best_combinations(cards.items) ELSE cards

\* The line read_input prints for a line read: print process(line.strip()) or
\* 'Invalid line'.  A Hand prints as its __str__.
Printed(line) ==
    LET r == process(Strip(line))
    IN  IF Truthy(r) THEN Hand_str(r) ELSE "Invalid line"

---------------------------------------------------------------------------
(* The sample input of the problem statement, which test() runs through    *)
(* process, with the rank expected for each line.                          *)

TestData ==
 <<
    << <<"T", "H">>, <<"J", "H">>, <<"Q", "C">>, <<"Q", "D">>, <<"Q", "S">>, <<"Q", "H">>, <<"K", "H">>, <<"A", "H">>, <<"2", "S">>, <<"6", "S">> >>,
    << <<"2", "H">>, <<"2", "S">>, <<"3", "H">>, <<"3", "S">>, <<"3", "C">>, <<"2", "D">>, <<"3", "D">>, <<"6", "C">>, <<"9", "C">>, <<"T", "H">> >>,
    << <<"2", "H">>, <<"2", "S">>, <<"3", "H">>, <<"3", "S">>, <<"3", "C">>, <<"2", "D">>, <<"9", "C">>, <<"3", "D">>, <<"6", "C">>, <<"T", "H">> >>,
    << <<"2", "H">>, <<"A", "D">>, <<"5", "H">>, <<"A", "C">>, <<"7", "H">>, <<"A", "H">>, <<"6", "H">>, <<"9", "H">>, <<"4", "H">>, <<"3", "C">> >>,
    << <<"A", "C">>, <<"2", "D">>, <<"9", "C">>, <<"3", "S">>, <<"K", "D">>, <<"5", "S">>, <<"4", "D">>, <<"K", "S">>, <<"A", "S">>, <<"4", "C">> >>,
    << <<"K", "S">>, <<"A", "H">>, <<"2", "H">>, <<"3", "C">>, <<"4", "H">>, <<"K", "C">>, <<"2", "C">>, <<"T", "C">>, <<"2", "D">>, <<"A", "S">> >>,
    << <<"A", "H">>, <<"2", "C">>, <<"9", "S">>, <<"A", "D">>, <<"3", "C">>, <<"Q", "H">>, <<"K", "S">>, <<"J", "S">>, <<"J", "D">>, <<"K", "D">> >>,
    << <<"6", "C">>, <<"9", "C">>, <<"8", "C">>, <<"2", "D">>, <<"7", "C">>, <<"2", "H">>, <<"T", "C">>, <<"4", "C">>, <<"9", "S">>, <<"A", "H">> >>,
    << <<"3", "D">>, <<"5", "S">>, <<"2", "H">>, <<"Q", "D">>, <<"T", "D">>, <<"6", "S">>, <<"K", "H">>, <<"9", "H">>, <<"A", "D">>, <<"Q", "H">> >>
 >>

TestExpected ==
    <<"straight-flush", "four-of-a-kind", "full-house", "flush", "straight", "three-of-a-kind", "two-pairs", "one-pair", "highest-card">>

RECURSIVE Join(_)
Join(tokens) ==
    IF tokens = <<>> THEN <<>>
    ELSE IF Len(tokens) = 1 THEN Head(tokens)
    ELSE Head(tokens) \o <<" ">> \o Join(Tail(tokens))

---------------------------------------------------------------------------
(* Inputs of Hand.evaluate and Hand.is_straight.  A hand is a multiset of   *)
(* five figures in descending order, suited in every way up to a renaming  *)
(* of the suits, and then put in one of the first NumOrders orders of      *)
(* Orders (which one, the figures decide).  The figures handed to is_straight are every descending list of *)
(* five ordinals, whether or not five distinct cards can carry them.       *)

NumOrders == 2

Orders == << <<3, 1, 4, 5, 2>>, <<5, 4, 3, 2, 1>>, <<1, 2, 3, 4, 5>>,
             <<2, 5, 1, 3, 4>>, <<4, 3, 5, 2, 1>> >>

Max(S) == CHOOSE x \in S : \A y \in S : y <= x

Min(S) == CHOOSE x \in S : \A y \in S : x <= y

\* Suits named in order of first use: one pattern for each way of suiting up
\* to a renaming of the four suits.
SuitPatterns ==
    {sp \in [1..5 -> 1..4] :
        sp[1] = 1 /\ \A k \in 2..5 : sp[k] <= 1 + Max({sp[j] : j \in 1..(k - 1)})}

Permute(seq, p) == [k \in DOMAIN p |-> seq[p[k]]]

NotYet == [tag |-> "NotYet"]

EvalIdle ==
    /\ ecards = <<>>
    /\ eresult = None
    /\ sfigures = <<>>
    /\ sresult = None

GenIdle == gen = [pc |-> "idle"]

SearchIdle ==
    /\ sbase = <<>>
    /\ srec = <<>>
    /\ sline = <<>>
    /\ sret = NotYet

HandIdle ==
    /\ hcards = <<>>
    /\ hlists = <<>>
    /\ hobj = <<>>
    /\ hbest = 0
    /\ hhand = 0
    /\ hvar = <<>>

InputIdle ==
    /\ fd = <<>>
    /\ iread = <<>>
    /\ iout = <<>>
    /\ idone = TRUE

EvalInit ==
    \/ /\ \E a \in 1..13 : \E b \in 1..a : \E c \in 1..b : \E d \in 1..c : \E e \in 1..d :
           \E sp \in SuitPatterns :
              LET f == <<a, b, c, d, e>>
                  o == ((a + b + c + d + e) % NumOrders) + 1
              IN  /\ \A k \in 1..4 : f[k] = f[k + 1] => sp[k] < sp[k + 1]
                  /\ ecards = Permute([k \in 1..5 |-> [id |-> k, card |-> MkCard(f[k], sp[k])]], Orders[o])
        /\ sfigures = <<>>
        /\ eresult = None
        /\ sresult = None
        /\ GenIdle /\ SearchIdle /\ HandIdle /\ InputIdle
    \/ /\ \E a \in 0..12 : \E b \in 0..a : \E c \in 0..b : \E d \in 0..c : \E e \in 0..d :
           sfigures = <<a, b, c, d, e>>
        /\ ecards = <<>>
        /\ eresult = None
        /\ sresult = None
        /\ GenIdle /\ SearchIdle /\ HandIdle /\ InputIdle

Evaluate ==
    /\ ecards # <<>>
    /\ eresult = None
    /\ eresult' = evaluate(ecards)
    /\ UNCHANGED <<ecards, sfigures, sresult, gen, svars, hvars, ivars>>

IsStraight ==
    /\ sfigures # <<>>
    /\ sresult = None
    /\ sresult' = PyBool(is_straight(sfigures))
    /\ UNCHANGED <<ecards, eresult, sfigures, gen, svars, hvars, ivars>>

EvalNext == Evaluate \/ IsStraight

SpecEval == EvalInit /\ [][EvalNext]_vars

---------------------------------------------------------------------------
(* The poker categories as the rules of the game define them, on the       *)
(* multiplicities of the figures and on the suits, with no sorting.        *)

Figures(cs) == {figure_only(cs[k]) : k \in DOMAIN cs}

Count(cs, f) == Cardinality({k \in DOMAIN cs : figure_only(cs[k]) = f})

\* How many figures occur exactly c times.
NumWith(cs, c) == Cardinality({f \in Figures(cs) : Count(cs, f) = c})

OneSuit(cs) == \A i, j \in DOMAIN cs : suit_only(cs[i]) = suit_only(cs[j])

\* Five consecutive ordinals (A-2-3-4-5 among them), or T-J-Q-K-A.
StraightSet(S) ==
    /\ Cardinality(S) = 5
    /\ (Max(S) - Min(S) = 4 \/ S = {0, 9, 10, 11, 12})

Category(cs) ==
    IF OneSuit(cs) /\ StraightSet(Figures(cs)) THEN "straight-flush"
    ELSE IF OneSuit(cs) THEN "flush"
    ELSE IF NumWith(cs, 4) = 1 THEN "four-of-a-kind"
    ELSE IF NumWith(cs, 3) = 1 /\ NumWith(cs, 2) = 1 THEN "full-house"
    ELSE IF StraightSet(Figures(cs)) THEN "straight"
    ELSE IF NumWith(cs, 3) = 1 /\ NumWith(cs, 1) = 2 THEN "three-of-a-kind"
    ELSE IF NumWith(cs, 2) = 2 /\ NumWith(cs, 1) = 1 THEN "two-pairs"
    ELSE IF NumWith(cs, 2) = 1 /\ NumWith(cs, 1) = 3 THEN "one-pair"
    ELSE "highest-card"

RankNames == {RANK[k] : k \in DOMAIN RANK}

\* C5: for five distinct valid cards Hand.evaluate returns one of the nine
\* rank names, the category the rules give on multiplicities and suits, and
\* the same one when the five cards are handed over in another order.
C5_EvaluateIsCategory ==
    eresult # None =>
        /\ eresult \in RankNames
        /\ eresult = Category(ecards)
        /\ \A o \in 1..NumOrders : evaluate(Permute(ecards, Orders[o])) = eresult

\* A full house handed over unsorted has been evaluated.
C5_Witness ==
    /\ eresult = "full-house"
    /\ HandFigures(ecards) # [k \in 1..5 |-> figure_only(ecards[k])]

\* C6: is_straight holds of a descending list of five ordinals exactly when
\* they are five consecutive ordinals or T-J-Q-K-A (12, 11, 10, 9, 0), and of
\* no list with a repeated ordinal and no other wrap-around.
C6_StraightExactly ==
    sresult # None =>
        /\ sresult = PyBool(StraightSet({sfigures[k] : k \in DOMAIN sfigures}))
        /\ (\E k \in 1..4 : sfigures[k] = sfigures[k + 1]) => sresult = "False"
        /\ sfigures \in {<<12, 3, 2, 1, 0>>, <<12, 11, 2, 1, 0>>, <<12, 11, 10, 1, 0>>}
              => sresult = "False"
        /\ sfigures = <<4, 3, 2, 1, 0>> => sresult = "True"

\* The break only at the last position, from King down to Ace.
C6_Witness == sresult = "True" /\ sfigures = <<12, 11, 10, 9, 0>>

---------------------------------------------------------------------------
(* discard(n) run step by step, for n from 0 to one more than the hand     *)
(* holds.                                                                  *)

DiscardInit ==
    /\ \E n \in 0..6 : gen = [pc |-> "call", n |-> n]
    /\ EvalIdle /\ SearchIdle /\ HandIdle /\ InputIdle

DiscardEnter ==
    /\ gen.pc = "call"
    /\ gen' = GenStart(gen.n)
    /\ UNCHANGED <<evars, svars, hvars, ivars>>

DiscardAppend ==
    /\ gen.pc = "loop"
    /\ gen.w < 5
    /\ gen' = GenAppend(gen)
    /\ UNCHANGED <<evars, svars, hvars, ivars>>

DiscardBack ==
    /\ gen.pc = "loop"
    /\ gen.w >= 5
    /\ Len(gen.s) > 0
    /\ gen' = GenBack(gen)
    /\ UNCHANGED <<evars, svars, hvars, ivars>>

DiscardStop ==
    /\ gen.pc = "loop"
    /\ gen.w >= 5
    /\ Len(gen.s) = 0
    /\ gen' = GenStop(gen)
    /\ UNCHANGED <<evars, svars, hvars, ivars>>

DiscardNext == DiscardEnter \/ DiscardAppend \/ DiscardBack \/ DiscardStop

SpecDiscard == DiscardInit /\ [][DiscardNext]_vars

Range(seq) == {seq[k] : k \in DOMAIN seq}

\* The positions a 5-bit mask selects.
MaskSet(m) == {i \in 0..4 : (m \div (2 ^ i)) % 2 = 1}

Ascending(v) == \A k \in 1..(Len(v) - 1) : v[k] < v[k + 1]

\* C9: discard(n), n in 1..5, ends (within 63 passes of its loop) having
\* yielded every n-element subset of {0..4} exactly once, each as a strictly
\* ascending list of n positions; over n = 1..5 these are the 31 subsets the
\* masks 1..31 select, 32 candidates with the hand as dealt.
C9_DiscardYieldsSubsets ==
    (gen.pc \in {"loop", "done"} /\ gen.n \in 1..5) =>
        /\ gen.steps <= 63
        /\ \A k \in DOMAIN gen.out :
              /\ Len(gen.out[k]) = gen.n
              /\ Ascending(gen.out[k])
              /\ Range(gen.out[k]) \subseteq 0..4
              /\ \A j \in DOMAIN gen.out : j # k => gen.out[j] # gen.out[k]
        /\ gen.pc = "done" =>
              /\ {Range(gen.out[k]) : k \in DOMAIN gen.out}
                    = {MaskSet(m) : m \in {x \in 1..31 : Cardinality(MaskSet(x)) = gen.n}}
              /\ gen.out = discard(gen.n)
              /\ {Range(Variations[k]) : k \in DOMAIN Variations} = {MaskSet(m) : m \in 1..31}
              /\ Len(Variations) + 1 = 32

\* discard(3) has ended, its ten subsets yielded.
C9_Witness == gen.pc = "done" /\ gen.n = 3 /\ Len(gen.out) = 10

---------------------------------------------------------------------------
(* process on the records of the sample input: the ten cards rotated by up *)
(* to MaxRot places (which moves cards between hand and deck), the five    *)
(* cards of the hand then put in every order.                              *)

MaxRot == 2

Rotate(seq, r) == [k \in DOMAIN seq |-> seq[((k - 1 + r) % Len(seq)) + 1]]

Perms5 == {p \in [1..5 -> 1..5] : \A i, j \in 1..5 : i # j => p[i] # p[j]}

SearchInit ==
    /\ \E i \in DOMAIN TestData : \E r \in 0..MaxRot : \E p \in Perms5 :
          /\ sbase = Rotate(TestData[i], r)
          /\ srec = Permute(SubSeq(sbase, 1, 5), p) \o SubSeq(sbase, 6, 10)
    /\ sline = Join(srec)
    /\ sret = NotYet
    /\ EvalIdle /\ GenIdle /\ HandIdle /\ InputIdle

Process ==
    /\ sret = NotYet
    /\ sret' = process(Strip(sline))
    /\ UNCHANGED <<evars, gen, sbase, srec, sline, hvars, ivars>>

SearchNext == Process

SpecSearch == SearchInit /\ [][SearchNext]_vars

\* The ten cards of a record of valid tokens, by figure and suit ordinal.
RecordCards(rec) ==
    [k \in DOMAIN rec |->
        [id |-> k,
         card |-> MkCard(CHOOSE i \in DOMAIN FIG : FIG[i] = rec[k][1],
                         CHOOSE i \in DOMAIN SUIT : SUIT[i] = rec[k][2])]]

\* The candidate of the set S of discarded positions (0..4): the k-th smallest
\* position of S holds the k-th card of the deck, the others their own card.
CandidateOf(cs, S) ==
    [i \in 1..5 |->
        IF (i - 1) \in S
        THEN cs[5 + Cardinality({j \in S : j < i - 1}) + 1]
        ELSE cs[i]]

RankIndex(name) == CHOOSE i \in DOMAIN RANK : RANK[i] = name

\* C1: for a record of ten distinct valid cards the hand returned has the
\* highest rank among the 32 candidates, one for each set of positions
\* discarded and refilled from the front of the deck in order; it is one of
\* those candidates and never ranks below the hand as dealt.
C1_BestOfAllCandidates ==
    sret # NotYet =>
        LET cs == RecordCards(srec)
            ranks == {RankIndex(evaluate(CandidateOf(cs, S))) : S \in SUBSET (0..4)}
        IN  /\ sret.tag = "Hand"
            /\ Cardinality({CandidateOf(cs, S) : S \in SUBSET (0..4)}) = 32
            /\ RankIndex(sret.rank) = Max(ranks)
            /\ RankIndex(sret.rank) >= RankIndex(evaluate(SubSeq(cs, 1, 5)))
            /\ \A i \in DOMAIN TestData : srec = TestData[i] => sret.rank = TestExpected[i]
            /\ \E S \in SUBSET (0..4) :
                  /\ sret.cards = CandidateOf(cs, S)
                  /\ \A k \in (6 + Cardinality(S))..10 : cs[k] \notin Range(sret.cards)

\* The best hand takes three cards of the deck and outranks the hand as dealt.
C1_Witness ==
    /\ sret # NotYet
    /\ sret.rank = "straight-flush"
    /\ evaluate(SubSeq(RecordCards(srec), 1, 5)) = "three-of-a-kind"
    /\ Cardinality(Range(sret.cards) \ Range(SubSeq(RecordCards(srec), 1, 5))) = 3

DeckReordered(rec, p) == SubSeq(rec, 1, 5) \o Permute(SubSeq(rec, 6, 10), p)

\* C8: process returns the same rank name whatever the order of the first
\* five cards of a record (the deck being left as it is).
C8_HandOrderIrrelevant ==
    sret # NotYet =>
        /\ sret.tag = "Hand"
        /\ Hand_str(sret) = Hand_str(process(Join(sbase)))

\* A hand out of its base order has been searched, and the same hand with
\* the same deck cards in another order ranks differently.
C8_Witness ==
    /\ sret # NotYet
    /\ srec # sbase
    /\ \E k \in DOMAIN Orders :
          Hand_str(process(Join(DeckReordered(srec, Orders[k])))) # Hand_str(sret)

---------------------------------------------------------------------------
(* The Hand objects of best_combinations, with the lists they refer to:    *)
(* five = cards[:5]; best = Hand(five); hand = Hand(five);                 *)
(* hand.replace(r, cards[5+n]); str, int, !=, >; best = hand.  The         *)
(* operations come in any order, but that the positions replaced in one   *)
(* hand ascend, as the lists discard yields do, the n-th of them taking    *)
(* cards[5+n].                                                             *)

\* Hand.__init__: self.cards = list(cards), a list of the new object's own
\* (the list of slot k is list k) and not the list src handed in.
Hand_init_list(slot, src) == slot

\* The Hand object in a slot, by value.
Deref(slot) ==
    [tag |-> "Hand", cards |-> hlists[hobj[slot].cards], rank |-> hobj[slot].rank]

HandInit ==
    /\ \E i \in DOMAIN TestData : hcards = convert(Join(TestData[i]))
    /\ hlists = [r \in 0..2 |-> IF r = 0 THEN SubSeq(hcards, 1, 5) ELSE <<>>]
    /\ hobj = [o \in 1..2 |-> [cards |-> o, rank |-> None]]
    /\ hbest = 0
    /\ hhand = 0
    /\ hvar = <<>>
    /\ EvalIdle /\ GenIdle /\ SearchIdle /\ InputIdle

\* best = Hand(five)
HBest ==
    /\ hbest = 0
    /\ LET ref == Hand_init_list(1, 0)
       IN  /\ hlists' = [hlists EXCEPT ![ref] = hlists[0]]
           /\ hobj' = [hobj EXCEPT ![1] = [cards |-> ref, rank |-> None]]
    /\ hbest' = 1
    /\ UNCHANGED <<hcards, hhand, hvar, evars, gen, svars, ivars>>

\* hand = Hand(five): a new object, in the slot best does not refer to
HNew ==
    /\ hbest # 0
    /\ LET slot == IF hbest = 1 THEN 2 ELSE 1
           ref == Hand_init_list(slot, 0)
       IN  /\ hlists' = [hlists EXCEPT ![ref] = hlists[0]]
           /\ hobj' = [hobj EXCEPT ![slot] = [cards |-> ref, rank |-> None]]
           /\ hhand' = slot
    /\ hvar' = <<>>
    /\ UNCHANGED <<hcards, hbest, evars, gen, svars, ivars>>

\* hand.replace(index, cards[5+n])
HReplace(index) ==
    /\ hhand # 0
    /\ hvar # <<>> => index > hvar[Len(hvar)]
    /\ LET v == Hand_replace(Deref(hhand), index, At(hcards, 5 + Len(hvar)))
       IN  /\ hlists' = [hlists EXCEPT ![hobj[hhand].cards] = v.cards]
           /\ hobj' = [hobj EXCEPT ![hhand].rank = v.rank]
    /\ hvar' = Append(hvar, index)
    /\ UNCHANGED <<hcards, hbest, hhand, evars, gen, svars, ivars>>

\* The objects of `slots` with their ranks cached, as __str__ and __int__
\* leave them.
Cached(slots) ==
    [o \in 1..2 |->
        IF o \in slots THEN [hobj[o] EXCEPT !.rank = Hand_cached(Deref(o)).rank]
        ELSE hobj[o]]

\* str(x), for x best or hand
HStr(x) ==
    /\ x # 0
    /\ hobj' = Cached({x})
    /\ UNCHANGED <<hcards, hlists, hbest, hhand, hvar, evars, gen, svars, ivars>>

\* int(x), for x best or hand
HInt(x) ==
    /\ x # 0
    /\ Hand_int(Deref(x)) \in 0..8
    /\ hobj' = Cached({x})
    /\ UNCHANGED <<hcards, hlists, hbest, hhand, hvar, evars, gen, svars, ivars>>

\* hand != best
HNe ==
    /\ hhand # 0
    /\ Hand_ne(Deref(hhand), Deref(hbest)) \in BOOLEAN
    /\ hobj' = Cached({hhand, hbest})
    /\ UNCHANGED <<hcards, hlists, hbest, hhand, hvar, evars, gen, svars, ivars>>

\* if hand > best: best = hand
HGt ==
    /\ hhand # 0
    /\ hobj' = Cached({hhand, hbest})
    /\ hbest' = IF Hand_gt(Deref(hhand), Deref(hbest)) THEN hhand ELSE hbest
    /\ UNCHANGED <<hcards, hlists, hhand, hvar, evars, gen, svars, ivars>>

HandNext ==
    \/ HBest
    \/ HNew
    \/ \E index \in 0..4 : HReplace(index)
    \/ HStr(hbest)
    \/ HStr(hhand)
    \/ HInt(hbest)
    \/ HInt(hhand)
    \/ HNe
    \/ HGt

SpecHand == HandInit /\ [][HandNext]_vars

Live == {hbest, hhand} \ {0}

\* How many positions two lists of one length differ in.
Differ(a, b) == Cardinality({k \in DOMAIN a : a[k] # b[k]})

\* Every Hand in use holds five cards, its cached rank is unset or the
\* evaluation of the cards it holds now, str of it is that evaluation, and
\* the list five still holds the first five cards of the record.
HandSound ==
    /\ \A o \in Live :
          /\ Len(Deref(o).cards) = 5
          /\ Deref(o).rank \in {None, evaluate(Deref(o).cards)}
          /\ Hand_str(Deref(o)) = evaluate(Deref(o).cards)
    /\ hlists[0] = SubSeq(hcards, 1, 5)

\* A step changes the cards of a Hand in use only by building it anew from
\* five or by replacing one card, and either way leaves its rank unset; it
\* sets a rank only to the evaluation of the cards, which it leaves alone.
HandStep ==
    \A o \in Live :
        LET before == Deref(o)
            after == [tag |-> "Hand", cards |-> hlists'[hobj'[o].cards], rank |-> hobj'[o].rank]
        IN  /\ after.cards # before.cards =>
                  /\ after.rank = None
                  /\ after.cards = hlists[0] \/ Differ(after.cards, before.cards) = 1
            /\ (after.rank # before.rank /\ after.rank # None) =>
                  /\ after.cards = before.cards
                  /\ after.rank = evaluate(before.cards)

\* C10: after any sequence of Hand operations a Hand holds five cards and a
\* cached rank that is unset or the evaluation of its cards; replace changes
\* one position and clears the cache, evaluation repeats its answer, and the
\* original five cards are never changed through a Hand copied from them.
C10_HandCacheSound == [](HandSound) /\ [][HandStep]_vars

\* A candidate with three cards replaced has been evaluated and taken as
\* best, leaving five as it was.
C10_Witness ==
    /\ hvar = <<2, 3, 4>>
    /\ hbest = hhand
    /\ hobj[hhand].rank = "straight-flush"
    /\ Differ(hlists[hobj[hhand].cards], hlists[0]) = 3

---------------------------------------------------------------------------
(* read_input over up to MaxLines lines, each one of InputLines: lines of  *)
(* the sample input, and the first of them with a token changed, a card    *)
(* repeated, a token dropped or added.                                     *)

MaxLines == 2

WithToken(rec, k, token) == [rec EXCEPT ![k] = token]

InputLines ==
    { Join(TestData[1]),
      Join(TestData[9]),
      <<" ">> \o Join(WithToken(TestData[3], 1, <<"2", "h">>)) \o <<" ", " ">>,
      Join(WithToken(TestData[1], 10, <<"T", "H">>)),
      Join(WithToken(TestData[1], 1, <<"X", "X">>)),
      Join(WithToken(TestData[1], 1, <<"T", "X">>)),
      Join(WithToken(TestData[1], 1, <<"H", "T">>)),
      Join(WithToken(TestData[1], 1, <<"T", "H", "X">>)),
      Join(WithToken(TestData[1], 1, <<"T">>)),
      Join(SubSeq(TestData[1], 1, 9)),
      Join(TestData[1] \o <<TestData[2][1]>>),
      <<>> }

RECURSIVE SeqsUpTo(_, _)
SeqsUpTo(S, n) ==
    IF n = 0 THEN {<<>>}
    ELSE LET shorter == SeqsUpTo(S, n - 1)
         IN  shorter \cup {Append(q, x) : q \in shorter, x \in S}

InputInit ==
    /\ fd \in SeqsUpTo(InputLines, MaxLines)
    /\ iread = <<>>
    /\ iout = <<>>
    /\ idone = FALSE
    /\ EvalIdle /\ GenIdle /\ SearchIdle /\ HandIdle

\* line = fd.readline(); print process(line.strip()) or 'Invalid line'
ReadLine ==
    /\ ~idone
    /\ fd # <<>>
    /\ fd' = Tail(fd)
    /\ iread' = Append(iread, Head(fd))
    /\ iout' = Append(iout, Printed(Head(fd)))
    /\ UNCHANGED <<idone, evars, gen, svars, hvars>>

\* if not line: break
EndOfFile ==
    /\ ~idone
    /\ fd = <<>>
    /\ idone' = TRUE
    /\ UNCHANGED <<fd, iread, iout, evars, gen, svars, hvars>>

InputNext == ReadLine \/ EndOfFile

SpecInput == InputInit /\ [][InputNext]_vars

\* The tokens of a line as written.
TokensOf(line) == Split(line)

\* A valid two-character card code: a figure, then a suit.
ValidToken(token) ==
    /\ Len(token) = 2
    /\ token[1] \in FigChars
    /\ token[2] \in SuitChars

\* The lines C4 speaks of: over the figures, the suits and one other character.
InScope(line) == Range(line) \subseteq FigChars \cup SuitChars \cup {"X", " "}

HasRepeatedCard(line) ==
    LET tokens == TokensOf(line)
    IN  \E i, j \in DOMAIN tokens : i # j /\ tokens[i] = tokens[j]

ValidRecord(line) ==
    LET tokens == TokensOf(line)
    IN  /\ Len(tokens) = 10
        /\ \A k \in DOMAIN tokens : ValidToken(tokens[k])
        /\ ~HasRepeatedCard(line)

\* C2: a record holding a card more than once is reported as 'Invalid line'.
C2_DuplicateRejected ==
    \A k \in DOMAIN iout :
        (InScope(iread[k]) /\ HasRepeatedCard(iread[k])) => iout[k] = "Invalid line"

TokenText(token) == token[1] \o token[2]

\* 'Hand: c1 c2 c3 c4 c5 Deck: d1 d2 d3 d4 d5 Best hand: ' of a valid record
Heading(line) ==
    LET t == TokensOf(line)
    IN  "Hand: " \o TokenText(t[1]) \o " " \o TokenText(t[2]) \o " "
          \o TokenText(t[3]) \o " " \o TokenText(t[4]) \o " " \o TokenText(t[5])
          \o " Deck: " \o TokenText(t[6]) \o " " \o TokenText(t[7]) \o " "
          \o TokenText(t[8]) \o " " \o TokenText(t[9]) \o " " \o TokenText(t[10])
          \o " Best hand: "

\* C3: the line printed for a valid record is its hand, its deck and the
\* best rank name, as 'Hand: ... Deck: ... Best hand: <rank-name>'.
C3_OutputLineFormat ==
    \A k \in DOMAIN iout :
        ValidRecord(iread[k]) =>
            \E name \in RankNames : iout[k] = Heading(iread[k]) \o name

\* C4: a record with a token that is no valid two-character card code (a
\* figure, then a suit) is reported as 'Invalid line'.
C4_MalformedTokenRejected ==
    \A k \in DOMAIN iout :
        (InScope(iread[k]) /\ \E t \in Range(TokensOf(iread[k])) : ~ValidToken(t))
            => iout[k] = "Invalid line"

\* C7: one line is printed for each line read, in order; a line that is
\* malformed or does not hold ten cards prints as 'Invalid line'; and each
\* line prints as it would were it the only line of the input.
C7_OneLinePerRecord ==
    /\ Len(iout) = Len(iread)
    /\ \A k \in DOMAIN iout :
          /\ iout[k] = Printed(iread[k])
          /\ ( InScope(iread[k])
               /\ (\/ Len(TokensOf(iread[k])) # 10
                   \/ \E t \in Range(TokensOf(iread[k])) : ~ValidToken(t)) )
                => iout[k] = "Invalid line"

====
